---- MODULE Spec2Model ----
(***************************************************************************)
(* ProxyNest: the proxy pool manager of src/proxynest.py and src/API.py,   *)
(* as a state machine over the MongoDB collection `proxies`.               *)
(*                                                                         *)
(* Every coroutine of ProxyManagement is cut at its awaits on the store:   *)
(* one action is one store operation (a find, an update_one, ...) together *)
(* with the synchronous code that follows it up to the next await.  The    *)
(* store executes each single-document operation atomically; nothing else  *)
(* is atomic.                                                              *)
(*                                                                         *)
(* Time is counted in minutes (the unit of inactive_proxy_timeout and      *)
(* threshold_time_minutes).                                                *)
(***************************************************************************)
EXTENDS Integers, FiniteSets, Sequences, TLC

\* ------------------------------------------------------------------ bounds

\* The clock runs from 0 to MaxTime.
MaxTime == 2

\* The API serves at most MaxCalls requests in one behaviour.
MaxCalls == 3

\* _id values the collection can hold, instance ids callers use, request tasks.
ProxyIds == {"p1", "p2"}
Instances == {"i1", "i2"}

\* An instance id is any string: this one has a dot in it.  In the field path
\* "instance_ids.<instance_id>" of an update the dot separates two keys.
DottedInstances == {"w.1"}

\* The key of instance_ids that the field path "instance_ids.<instance_id>"
\* names first.
FirstKey == [i \in Instances \cup DottedInstances |-> IF i = "w.1" THEN "w" ELSE i]
Tasks == {"t1", "t2"}

\* ------------------------------------------------------------ data model

\* ProxyModel.last_used = None (also: the field is not in the document).
NoTime == -1

\* A value of instance_ids that is an embedded document and no datetime: what
\* an update on the path "instance_ids.w.1" leaves under the key "w".
EmbeddedDocument == -2

\* ProxyModel.response_time = None: the proxy was never probed.
NoResponseTime == -1

\* float('inf'), the response_time check_proxy writes for a proxy that
\* answered on no URL, as a number above every measured time.
Infinity == 1000000

\* ProxyModel.username / password = None.
NoCredential == "none"

\* ProxyModel.country_code = None / assign called without country_code.
NoCountry == "none"

\* No proxy id held in a task's local `proxy_id`.
NoProxy == "none"

\* The empty instance_ids mapping, {} (ProxyModel.instance_ids default).
EmptyMap == [k \in {} |-> 0]

\* A document of db.proxies as add_proxy inserts it: model_dump(by_alias=True,
\* exclude_none=True) keeps status "UNKNOWN", instance_ids {} and tags [], and
\* drops the None fields username, password, response_time, country_code,
\* last_used and instance_id.
\* instance_id is the legacy scalar field: "absent" (not in the document) or
\* "null" (set to None by clear_instance_id's fallback update).
ProxyModel(ip, port, protocol) ==
    [ip |-> ip, port |-> port, protocol |-> protocol,
     username |-> NoCredential, password |-> NoCredential,
     response_time |-> NoResponseTime,
     status |-> "UNKNOWN", country_code |-> NoCountry, tags |-> {},
     instance_ids |-> EmptyMap, last_used |-> NoTime, instance_id |-> "absent"]

\* str.upper() on the country codes callers pass.
Upper(s) ==
    CASE s = "fr" -> "FR"
      [] s = "us" -> "US"
      [] OTHER -> s

\* dict with key k set to v (d[k] = v; "$set"/"$currentDate" on a field path).
SetKey(d, k, v) == [x \in (DOMAIN d) \cup {k} |-> IF x = k THEN v ELSE d[x]]

\* dict without the keys ks ("$unset" of field paths instance_ids.<k>).
Unset(d, ks) == [x \in (DOMAIN d) \ ks |-> d[x]]

\* default_settings["background_check_proxies_interval"], in seconds.
DefaultInterval == 60

\* The document of db.proxy_manager_settings that holds the cached values s
\* (a specification that leaves the interval out of s has the default in the
\* document).
SettingsDocument(s) ==
    [f \in (DOMAIN s) \cup {"background_check_proxies_interval"} |->
        IF f \in DOMAIN s THEN s[f] ELSE DefaultInterval]

\* The values the body of /update_proxy can give a field
\* (Dict[str, Optional[Union[str, int, List[str]]]]), with their Python type.
JsonNull == [type |-> "NoneType", value |-> "none"]

JsonStr(s) == [type |-> "str", value |-> s]

JsonInt(n) == [type |-> "int", value |-> n]

JsonList(l) == [type |-> "list", value |-> l]

\* The numbers a client sends in a field.
JsonInts == {7}

\* The text of a number.  A document field whose values are strings holds a
\* number as its numeral; no string of the model is a numeral.
Numerals == {ToString(n) : n \in JsonInts}

\* What "$set" stores for a field of a patch: the value, whatever its type
\* (nothing in edit_proxy compares it with the type ProxyModel declares).
Stored(field, v) ==
    IF v.type = "int" /\ field # "port" THEN ToString(v.value) ELSE v.value

\* ProxyModel(**document) raises ValidationError: a field declared str or
\* Optional[str] holds a number (pydantic does not turn numbers into strings).
ValidationError(doc) ==
    \/ \E f \in {"ip", "username", "password", "protocol", "country_code"} :
          doc[f] \in Numerals
    \/ \E k \in DOMAIN doc.instance_ids : doc.instance_ids[k] = EmbeddedDocument

VARIABLES
    proxies,    \* db.proxies: _id -> document, for the documents that exist
    settings,   \* the attributes load_settings caches on the ProxyManagement object
    now,        \* the clock (datetime.now / the server's $currentDate), in minutes
    task,       \* request handlers in flight: task -> its locals and position
    sweep,      \* the clear_inactive_proxies loop: its locals and position
    pre,        \* history: whether it is kept (on), and db.proxies and the clock
                \* when the last call began
    calls,      \* history: the number of requests received so far
    proxy_manager_settings,
                \* db.proxy_manager_settings: its single document
    checks,     \* the check_proxy tasks add_proxy and edit_proxy have created
    health,     \* the background_check_proxies loop: its locals and position
    enrich      \* the background_update_country_codes loop: its locals and position

vars == <<proxies, settings, now, task, sweep, pre, calls,
          proxy_manager_settings, checks, health, enrich>>

\* ------------------------------------------------------ store operations

\* get_proxies(): find({}) and one ProxyModel per document; the documents that
\* fail validation are printed and left out of the list.
get_proxies(db) == {p \in DOMAIN db : ~ValidationError(db[p])}

\* A document with the fields of patch replaced ("$set": patch).
Patch(doc, patch) ==
    [f \in DOMAIN doc |-> IF f \in DOMAIN patch THEN patch[f] ELSE doc[f]]

\* update_one({"_id": id}, {"$set": patch}) on db.proxies.  An update on a
\* missing _id matches nothing and never inserts (no update of db.proxies in
\* the source asks for upsert).
\* update_one_set as an upsert: a missing id gets a new document.
update_one_set_upsert(db, id, patch) ==
    [p \in (DOMAIN db) \cup {id} |->
        IF p = id
        THEN Patch(IF id \in DOMAIN db THEN db[id] ELSE ProxyModel("10.0.0.1", 8080, "HTTP"),
                   patch)
        ELSE db[p]]

update_one_set(db, id, patch) ==
    IF id \in DOMAIN db THEN [db EXCEPT ![id] = Patch(@, patch)] ELSE db

\* result.modified_count of an update_one that took db to db2: 1 iff a
\* document matched and the update changed it.
ModifiedCount(db, db2) == IF db # db2 THEN 1 ELSE 0

\* BSON type of the stored instance_ids field: ProxyModel declares
\* Dict[str, datetime], which the driver stores as an embedded document.
InstanceIdsBsonType == "object"

\* find({"instance_ids": instance_id}): MongoDB's equality match on a field
\* selects a document when the field's value equals the operand or is an array
\* that contains it.  It does not look at the keys of an embedded document, so
\* a document whose instance_ids is the mapping {instance_id: t} is not
\* selected.
find_instance_proxies(db, instance_id) ==
    {p \in DOMAIN db :
        /\ InstanceIdsBsonType \in {"string", "array"}
        /\ instance_id \in DOMAIN db[p].instance_ids}

\* candidate_query with the $where comparing with <= instead of <.
candidate_query_off_by_one(db, country_code, tags) ==
    {p \in DOMAIN db :
        /\ db[p].status = "UP"
        /\ Cardinality(DOMAIN db[p].instance_ids) <= settings.max_instances_per_proxy
        /\ (tags # {} => tags \subseteq db[p].tags)
        /\ (country_code # NoCountry => db[p].country_code = Upper(country_code))}

\* candidate_query without the $where on the number of leases.
candidate_query_no_capacity(db, country_code, tags) ==
    {p \in DOMAIN db :
        /\ db[p].status = "UP"
        /\ (tags # {} => tags \subseteq db[p].tags)
        /\ (country_code # NoCountry => db[p].country_code = Upper(country_code))}

\* candidate_query without the $all on tags.
candidate_query_no_tags(db, country_code, tags) ==
    {p \in DOMAIN db :
        /\ db[p].status = "UP"
        /\ Cardinality(DOMAIN db[p].instance_ids) < settings.max_instances_per_proxy
        /\ (country_code # NoCountry => db[p].country_code = Upper(country_code))}

\* The candidate query of assign_proxy_to_instance: status UP, the $where on
\* the number of keys of instance_ids, $all on tags when tags is non-empty,
\* country_code.upper() when a country code is given.
candidate_query(db, country_code, tags) ==
    {p \in DOMAIN db :
        /\ db[p].status = "UP"
        /\ Cardinality(DOMAIN db[p].instance_ids) < settings.max_instances_per_proxy
        /\ (tags # {} => tags \subseteq db[p].tags)
        /\ (country_code # NoCountry => db[p].country_code = Upper(country_code))}

\* prune_instance_ids keeping the lease that is exactly inactive_proxy_timeout old.
prune_instance_ids_inclusive(ids, current_time) ==
    [k \in {x \in DOMAIN ids : ids[x] >= current_time - settings.inactive_proxy_timeout}
        |-> ids[k]]

\* The dict comprehension that drops the leases not used for
\* inactive_proxy_timeout minutes.
prune_instance_ids(ids, current_time) ==
    [k \in {x \in DOMAIN ids : ids[x] > current_time - settings.inactive_proxy_timeout}
        |-> ids[k]]

\* ------------------------------------------------------------------ tasks

IdleTask ==
    [pc |-> "idle", op |-> "none", instance_id |-> "none",
     country_code |-> NoCountry, tags |-> {}, proxy_id |-> NoProxy,
     new_ids |-> EmptyMap, update_dict |-> EmptyMap, proxy_data |-> EmptyMap,
     todo |-> {}, ret |-> "none"]

\* A handler returns `ret` after working on proxy_id.  The task is idle again.
\* A specification that keeps history (pre.on) keeps the call's op, arguments,
\* proxy and result readable until the task's next call; the others forget
\* them, as the server does once the response is sent.
Done(call, ret, proxy_id) ==
    IF pre.on
    THEN [call EXCEPT !.pc = "idle", !.ret = ret, !.proxy_id = proxy_id,
                      !.new_ids = EmptyMap, !.update_dict = EmptyMap,
                      !.proxy_data = EmptyMap, !.todo = {}]
    ELSE IdleTask

Return(t, ret, proxy_id) == task' = [task EXCEPT ![t] = Done(task[t], ret, proxy_id)]

\* -------------------------------------------- assign_proxy_to_instance

\* The call and its first await: the per-instance count.  (The history
\* variable pre is set or left alone by the specification that uses the action.)
assign_count(t, instance_id, country_code, tags) ==
    /\ task[t].pc = "idle"
    /\ LET instance_proxies == find_instance_proxies(proxies, instance_id)
           call == [IdleTask EXCEPT !.op = "assign", !.instance_id = instance_id,
                                    !.country_code = country_code, !.tags = tags]
       IN  IF Cardinality(instance_proxies) >= settings.max_proxies_per_instance
           THEN task' = [task EXCEPT ![t] = Done(call, "saturated", NoProxy)]
           ELSE task' = [task EXCEPT ![t] = [call EXCEPT !.pc = "assign_find"]]
    /\ UNCHANGED <<proxies, settings, now, sweep,
                   proxy_manager_settings, checks, health, enrich>>

\* find_one(query), then current_time, the pruned mapping and the new lease,
\* up to the await of update_one.
assign_find(t) ==
    /\ task[t].pc = "assign_find"
    /\ LET found == candidate_query(proxies, task[t].country_code, task[t].tags)
       IN  IF found = {}
           THEN Return(t, "noproxy", NoProxy)
           ELSE \E p \in found :
                  task' = [task EXCEPT
                      ![t].pc = "assign_write",
                      ![t].proxy_id = p,
                      ![t].new_ids =
                          SetKey(prune_instance_ids(proxies[p].instance_ids, now),
                                 task[t].instance_id, now)]
    /\ UNCHANGED <<proxies, settings, now, sweep, pre, calls,
                   proxy_manager_settings, checks, health, enrich>>

\* update_one({'_id': ...}, {'$set': {'instance_ids': ...}}) and the test of
\* result.modified_count.
assign_write(t) ==
    /\ task[t].pc = "assign_write"
    /\ LET p == task[t].proxy_id
           db2 == update_one_set(proxies, p, [instance_ids |-> task[t].new_ids])
       IN  /\ proxies' = db2
           /\ IF ModifiedCount(proxies, db2) = 1
              THEN task' = [task EXCEPT ![t].pc = "assign_touch"]
              ELSE Return(t, "failed", p)
    /\ UNCHANGED <<settings, now, sweep, pre, calls,
                   proxy_manager_settings, checks, health, enrich>>

\* update_last_used stamping a lease only when the mapping does not have it.
update_last_used_first_only(db, p, instance_id) ==
    IF p \notin DOMAIN db THEN db
    ELSE IF instance_id # "none"
         THEN IF instance_id \in DOMAIN db[p].instance_ids THEN db
              ELSE [db EXCEPT ![p].instance_ids = SetKey(@, instance_id, now)]
         ELSE [db EXCEPT ![p].last_used = now]

\* update_last_used: $currentDate on instance_ids.<instance_id> when an
\* instance id is given, on last_used otherwise.  $currentDate sets the field
\* path, creating the key when the mapping does not have it; with a dot in the
\* instance id the path has one more level, and the key it creates in
\* instance_ids holds an embedded document.
update_last_used(db, p, instance_id) ==
    IF p \notin DOMAIN db THEN db
    ELSE IF instance_id \in DottedInstances
         THEN [db EXCEPT ![p].instance_ids =
                             SetKey(@, FirstKey[instance_id], EmbeddedDocument)]
    ELSE IF instance_id # "none"
         THEN [db EXCEPT ![p].instance_ids = SetKey(@, instance_id, now)]
         ELSE [db EXCEPT ![p].last_used = now]

\* await self.update_last_used(proxy_id), then the success result.
assign_touch(t) ==
    /\ task[t].pc = "assign_touch"
    /\ proxies' = update_last_used(proxies, task[t].proxy_id, "none")
    /\ Return(t, "success", task[t].proxy_id)
    /\ UNCHANGED <<settings, now, sweep, pre, calls,
                   proxy_manager_settings, checks, health, enrich>>

\* ------------------------------------------------- refresh_proxy_usage

\* POST /refresh_proxy_usage/{proxy_id}: one call of update_last_used, one
\* update of the store.  instance_id "none" is the call without instance_id.
refresh_proxy_usage(p, instance_id) ==
    /\ proxies' = update_last_used(proxies, p, instance_id)
    /\ UNCHANGED <<settings, now, task, sweep,
                   proxy_manager_settings, checks, health, enrich>>

\* --------------------------------------------------- clearing of leases

\* clear_instance_id, first update: $unset instance_ids.<instance_id> on the
\* document whose instance_ids is an object.
unset_instance_id(db, p, instance_id) ==
    IF p \in DOMAIN db
    THEN [db EXCEPT ![p].instance_ids = Unset(@, {instance_id})]
    ELSE db

\* clear_instance_id, second update (reached when the first modified nothing):
\* $set instance_id None, the legacy scalar field.
set_instance_id_none(db, p) == update_one_set(db, p, [instance_id |-> "null"])

\* What follows a clear_instance_id that returned `result`, in the two callers:
\* clear_instance_from_specific_proxy returns success or error;
\* clear_instance_reservation goes on with the next proxy of its list, returns
\* error at the first failure, and success after the last proxy.
after_clear_instance_id(t, result) ==
    IF task[t].op = "clear_on"
    THEN Return(t, IF result THEN "success" ELSE "error", task[t].proxy_id)
    ELSE IF ~result
         THEN Return(t, "error", task[t].proxy_id)
         ELSE IF task[t].todo = {}
              THEN Return(t, "success", NoProxy)
              ELSE \E q \in task[t].todo :
                     task' = [task EXCEPT ![t].pc = "clear_unset",
                                          ![t].proxy_id = q,
                                          ![t].todo = @ \ {q}]

\* clear_instance_from_specific_proxy(proxy_id, instance_id): the call.
clear_instance_from_specific_proxy(t, p, instance_id) ==
    /\ task[t].pc = "idle"
    /\ task' = [task EXCEPT ![t] =
                  [IdleTask EXCEPT !.op = "clear_on", !.pc = "clear_unset",
                                   !.instance_id = instance_id, !.proxy_id = p]]
    /\ UNCHANGED <<proxies, settings, now, sweep,
                   proxy_manager_settings, checks, health, enrich>>

\* clear_instance_reservation(instance_id): get_proxies() and the scan of its
\* result for the proxies that hold instance_id, up to the first
\* clear_instance_id (or to the "not found in any proxy" result).
clear_instance_reservation(t, instance_id) ==
    /\ task[t].pc = "idle"
    /\ LET holders == {p \in get_proxies(proxies) :
                          instance_id \in DOMAIN proxies[p].instance_ids}
           call == [IdleTask EXCEPT !.op = "clear", !.instance_id = instance_id]
       IN  IF holders = {}
           THEN task' = [task EXCEPT ![t] = Done(call, "notheld", NoProxy)]
           ELSE \E q \in holders :
                  task' = [task EXCEPT ![t] =
                             [call EXCEPT !.pc = "clear_unset", !.proxy_id = q,
                                          !.todo = holders \ {q}]]
    /\ UNCHANGED <<proxies, settings, now, sweep,
                   proxy_manager_settings, checks, health, enrich>>

\* clear_instance_id: the $unset update and the test of modified_count.
clear_unset(t) ==
    /\ task[t].pc = "clear_unset"
    /\ LET db2 == unset_instance_id(proxies, task[t].proxy_id, task[t].instance_id)
       IN  /\ proxies' = db2
           /\ IF ModifiedCount(proxies, db2) = 1
              THEN after_clear_instance_id(t, TRUE)
              ELSE task' = [task EXCEPT ![t].pc = "clear_fallback"]
    /\ UNCHANGED <<settings, now, sweep, pre, calls,
                   proxy_manager_settings, checks, health, enrich>>

\* clear_instance_id: the fallback update; its modified_count is the result.
clear_fallback(t) ==
    /\ task[t].pc = "clear_fallback"
    /\ LET db2 == set_instance_id_none(proxies, task[t].proxy_id)
       IN  /\ proxies' = db2
           /\ after_clear_instance_id(t, ModifiedCount(proxies, db2) = 1)
    /\ UNCHANGED <<settings, now, sweep, pre, calls,
                   proxy_manager_settings, checks, health, enrich>>

\* ------------------------------------------- load_settings, update_settings

SettingsFields ==
    {"inactive_proxy_timeout", "threshold_time_minutes",
     "background_check_proxies_interval", "max_instances_per_proxy",
     "max_proxies_per_instance"}

\* db.proxy_manager_settings without a document (find_one() returns None).
NoDocument == <<>>

default_settings ==
    [inactive_proxy_timeout |-> 10, threshold_time_minutes |-> 10,
     background_check_proxies_interval |-> DefaultInterval,
     max_instances_per_proxy |-> 2, max_proxies_per_instance |-> 1]

\* update_one({}, {'$set': update_dict}, upsert=True) on the settings
\* collection: the document with the fields set, or, on an empty collection,
\* a new document made of update_dict alone.
update_one_upsert(doc, update_dict) ==
    [f \in (DOMAIN doc) \cup (DOMAIN update_dict) |->
        IF f \in DOMAIN update_dict THEN update_dict[f] ELSE doc[f]]

\* result.matched_count of that update: an upsert that inserts matched nothing.
MatchedCount(doc) == IF doc = NoDocument THEN 0 ELSE 1

\* The document load_settings works with: what find_one() returned, or
\* default_settings after inserting them into an empty collection.
loaded_document(doc) == IF doc = NoDocument THEN default_settings ELSE doc

\* load_settings leaving the cached max_instances_per_proxy as it is.
load_settings_keep_capacity(doc) ==
    [f \in SettingsFields |->
        IF f = "max_instances_per_proxy" /\ f \in DOMAIN settings
        THEN settings[f] ELSE loaded_document(doc)[f]]

\* The attributes load_settings caches on the object, one per setting.
load_settings(doc) == [f \in SettingsFields |-> loaded_document(doc)[f]]

\* update_settings(updated_settings) up to its second await.  updated_settings
\* is model_dump(exclude_none=True): the fields that are not None.  400 when
\* there is none; then the upsert and the test of matched_count (404).
update_settings(t, updated_settings) ==
    /\ task[t].pc = "idle"
    /\ LET call == [IdleTask EXCEPT !.op = "update_settings"]
           update_dict == updated_settings
       IN  IF DOMAIN update_dict = {}
           THEN /\ task' = [task EXCEPT ![t] = Done(call, "nosettings", NoProxy)]
                /\ UNCHANGED proxy_manager_settings
           ELSE /\ proxy_manager_settings' =
                      update_one_upsert(proxy_manager_settings, update_dict)
                /\ IF MatchedCount(proxy_manager_settings) < 1
                   THEN task' = [task EXCEPT ![t] = Done(call, "notfound", NoProxy)]
                   ELSE task' = [task EXCEPT ![t] =
                                    [call EXCEPT !.pc = "settings_load",
                                                 !.update_dict = update_dict]]
    /\ UNCHANGED <<proxies, settings, now, sweep, checks, health, enrich>>

\* await self.load_settings() inside update_settings, then the success result.
settings_load(t) ==
    /\ task[t].pc = "settings_load"
    /\ proxy_manager_settings' = loaded_document(proxy_manager_settings)
    /\ settings' = load_settings(proxy_manager_settings)
    /\ Return(t, "success", NoProxy)
    /\ UNCHANGED <<proxies, now, sweep, pre, calls, checks, health, enrich>>

\* load_settings() called on its own.
load_settings_call ==
    /\ proxy_manager_settings' = loaded_document(proxy_manager_settings)
    /\ settings' = load_settings(proxy_manager_settings)
    /\ UNCHANGED <<proxies, now, task, sweep, checks, health, enrich>>

\* ------------------------------------------------------ reset_all_proxies

\* reset_document leaving last_used as it is.
reset_document_keep_last_used(doc) == Patch(doc, [instance_ids |-> EmptyMap])

\* What update_many's {"$set": {"instance_ids": {}, "last_used": None}} makes
\* of one document.
reset_document(doc) == Patch(doc, [instance_ids |-> EmptyMap, last_used |-> NoTime])

\* reset_all_proxies(): update_many({}, ...) is sent.  The store updates the
\* matching documents one at a time (each update atomic, the whole not);
\* matched_count = 0 gives the first "info" result at once.
reset_all_proxies(t) ==
    /\ task[t].pc = "idle"
    /\ LET call == [IdleTask EXCEPT !.op = "reset"]
       IN  IF DOMAIN proxies = {}
           THEN task' = [task EXCEPT ![t] = Done(call, "info", NoProxy)]
           ELSE task' = [task EXCEPT ![t] =
                           [call EXCEPT !.pc = "reset_update", !.todo = DOMAIN proxies,
                                        !.ret = "info"]]
    /\ UNCHANGED <<proxies, settings, now, sweep,
                   proxy_manager_settings, checks, health, enrich>>

\* update_many reaches its next document; after the last one the call returns
\* "success" when modified_count > 0 (ret keeps that while the update runs) and
\* "info" otherwise.
reset_update(t) ==
    /\ task[t].pc = "reset_update"
    /\ \E p \in task[t].todo :
         LET db2 == IF p \in DOMAIN proxies
                    THEN [proxies EXCEPT ![p] = reset_document(@)] ELSE proxies
             ret == IF ModifiedCount(proxies, db2) = 1 THEN "success" ELSE task[t].ret
         IN  /\ proxies' = db2
             /\ IF task[t].todo = {p}
                THEN Return(t, ret, NoProxy)
                ELSE task' = [task EXCEPT ![t].todo = @ \ {p}, ![t].ret = ret]
    /\ UNCHANGED <<settings, now, sweep, pre, calls,
                   proxy_manager_settings, checks, health, enrich>>

\* ------------------------------------------------ clear_inactive_proxies

SweepSleeping == [pc |-> "sleep", threshold_time |-> 0, todo |-> {}, expired |-> <<>>]

\* expired_instance_ids of one document read by the sweep.
expired_instance_ids(instance_ids, threshold_time) ==
    {i \in DOMAIN instance_ids : instance_ids[i] < threshold_time}

\* last_used.replace(tzinfo=...) raises AttributeError on a value of
\* instance_ids that is no datetime.
raises_AttributeError(instance_ids) ==
    \E i \in DOMAIN instance_ids : instance_ids[i] = EmbeddedDocument

\* The update the sweep sends for a proxy: $unset of the expired keys, and of
\* last_used when every key the sweep read had expired.
sweep_update(db, p, expired, all_expired) ==
    IF p \notin DOMAIN db THEN db
    ELSE [db EXCEPT ![p].instance_ids = Unset(@, expired),
                    ![p].last_used = IF all_expired THEN NoTime ELSE @]

\* Top of the while loop: current_time, threshold_time, and the find({}) that
\* reads every proxy.  The loop then keeps, per proxy with expired leases, what
\* it will send: the expired keys and whether they are all the keys it read;
\* and, per proxy whose mapping makes the comprehension raise, that it does.
sweep_read ==
    /\ sweep.pc = "sleep"
    /\ LET threshold_time == now - settings.threshold_time_minutes
           has == {p \in DOMAIN proxies :
                     \/ raises_AttributeError(proxies[p].instance_ids)
                     \/ expired_instance_ids(proxies[p].instance_ids, threshold_time) # {}}
       IN  sweep' = [pc |-> "loop", threshold_time |-> threshold_time, todo |-> has,
                     expired |-> [p \in has |->
                        IF raises_AttributeError(proxies[p].instance_ids)
                        THEN [ids |-> {}, all |-> FALSE, raises |-> TRUE]
                        ELSE
                        [ids |-> expired_instance_ids(proxies[p].instance_ids, threshold_time),
                         all |-> expired_instance_ids(proxies[p].instance_ids, threshold_time)
                                    = DOMAIN proxies[p].instance_ids,
                         raises |-> FALSE]]]
    /\ UNCHANGED <<proxies, settings, now, task, pre, calls,
                   proxy_manager_settings, checks, health, enrich>>

\* The update_one of the next proxy with expired leases.  When the for loop
\* comes to a proxy whose mapping raises, the exception leaves the coroutine
\* (nothing in clear_inactive_proxies catches it): the loop's task has ended,
\* the proxies after it in the list are not updated.
sweep_write ==
    /\ sweep.pc = "loop"
    /\ sweep.todo # {}
    /\ \E p \in sweep.todo :
         IF sweep.expired[p].raises
         THEN /\ proxies' = proxies
              /\ sweep' = [sweep EXCEPT !.pc = "ended"]
         ELSE /\ proxies' = sweep_update(proxies, p, sweep.expired[p].ids,
                                         sweep.expired[p].all)
              /\ sweep' = [sweep EXCEPT !.todo = @ \ {p}]
    /\ UNCHANGED <<settings, now, task, pre, calls,
                   proxy_manager_settings, checks, health, enrich>>

\* The for loop is over: asyncio.sleep(background_check_proxies_interval).
sweep_sleep ==
    /\ sweep.pc = "loop"
    /\ sweep.todo = {}
    /\ sweep' = SweepSleeping
    /\ UNCHANGED <<proxies, settings, now, task, pre, calls,
                   proxy_manager_settings, checks, health, enrich>>

\* ------------------------------------------------------------ check_proxy

\* background_check_proxies asleep.  results is what the probes of its last
\* iteration found, per proxy it read.
HealthSleeping == [pc |-> "sleep", todo |-> {}, results |-> <<>>]

\* The write that ends a probe of proxy p (started by the health sweep, by
\* add_proxy or by edit_proxy): $set status and response_time.  The probe's
\* outcome is the environment's choice: UP with the average of the measured
\* times, or DOWN with float('inf').
check_proxy(p, status, avg_response_time) ==
    /\ status = "UP" <=> avg_response_time # Infinity
    /\ proxies' = update_one_set(proxies, p,
                      [status |-> status, response_time |-> avg_response_time])
    /\ UNCHANGED <<settings, now, task, sweep, pre, calls,
                   proxy_manager_settings, checks, enrich>>

\* ------------------------------------------------------------- edit_proxy

\* allowed_fields with status in it.
allowed_fields_with_status ==
    {"ip", "port", "username", "password", "protocol", "country_code", "tags", "status"}

allowed_fields ==
    {"ip", "port", "username", "password", "protocol", "country_code", "tags"}

\* edit_proxy(proxy_id, updated_fields): find_one on the id (404 when there is
\* none), then the validation loop over the patch, which raises 400 at the
\* first field that is not editable, is None, or is tags and not a list (the
\* first in the order of the request body, any order here).  An empty patch
\* gets the "No valid fields" result.  update_dict holds what "$set" will store.
edit_find(t, p, updated_fields) ==
    /\ task[t].pc = "idle"
    /\ LET call == [IdleTask EXCEPT !.op = "edit", !.proxy_id = p]
           not_editable == {f \in DOMAIN updated_fields : f \notin allowed_fields}
           bad_value == {f \in DOMAIN updated_fields \cap allowed_fields :
                            \/ updated_fields[f].type = "NoneType"
                            \/ f = "tags" /\ updated_fields[f].type # "list"}
       IN  IF p \notin DOMAIN proxies
           THEN task' = [task EXCEPT ![t] = Done(call, "notfound", p)]
           ELSE IF not_editable \cup bad_value # {}
           THEN \E f \in not_editable \cup bad_value :
                  task' = [task EXCEPT ![t] =
                      Done(call, IF f \in not_editable THEN "forbidden" ELSE "invalid", p)]
           ELSE IF DOMAIN updated_fields = {}
           THEN task' = [task EXCEPT ![t] = Done(call, "nofields", p)]
           ELSE task' = [task EXCEPT ![t] =
                           [call EXCEPT !.pc = "edit_update",
                                        !.update_dict =
                                            [f \in DOMAIN updated_fields |->
                                                Stored(f, updated_fields[f])]]]
    /\ UNCHANGED <<proxies, settings, now, sweep,
                   proxy_manager_settings, checks, health, enrich>>

\* find_one_and_update({"_id": ...}, {"$set": update_dict}); 500 when no
\* document has the id any more.  Then ProxyModel(**result), which raises when
\* the updated document does not validate (the update has landed, no check is
\* created, the request ends in an error), and create_task(check_proxy).
edit_update(t) ==
    /\ task[t].pc = "edit_update"
    /\ LET p == task[t].proxy_id
           db2 == update_one_set(proxies, p, task[t].update_dict)
       IN  /\ proxies' = db2
           /\ IF p \in DOMAIN proxies /\ ~ValidationError(db2[p])
              THEN checks' = checks \cup {p} /\ Return(t, "success", p)
              ELSE checks' = checks /\ Return(t, "error", p)
    /\ UNCHANGED <<settings, now, sweep, pre, calls,
                   proxy_manager_settings, health, enrich>>

\* -------------------------------------------------------------- add_proxy

\* existing_proxy matching on status as well as on the triple.
existing_proxy_same_status(db, proxy_data) ==
    {p \in DOMAIN db :
        /\ db[p].ip = proxy_data.ip
        /\ db[p].port = proxy_data.port
        /\ db[p].protocol = proxy_data.protocol
        /\ db[p].status = proxy_data.status}

\* find_one({'ip': ..., 'port': ..., 'protocol': ...}): the documents it can
\* return.
existing_proxy(db, proxy_data) ==
    {p \in DOMAIN db :
        /\ db[p].ip = proxy_data.ip
        /\ db[p].port = proxy_data.port
        /\ db[p].protocol = proxy_data.protocol}

\* add_proxy(proxy): the find_one on (ip, port, protocol); 400 when a document
\* has the triple.  doc is the new document, id its fresh ObjectId.
add_find(t, id, doc) ==
    /\ task[t].pc = "idle"
    /\ id \notin DOMAIN proxies
    /\ \A u \in Tasks : ~(task[u].pc = "add_insert" /\ task[u].proxy_id = id)
    /\ LET existing == existing_proxy(proxies, doc)
           call == [IdleTask EXCEPT !.op = "add", !.proxy_id = id]
       IN  IF existing # {}
           THEN task' = [task EXCEPT ![t] = Done(call, "duplicate", id)]
           ELSE task' = [task EXCEPT ![t] =
                           [call EXCEPT !.pc = "add_insert", !.proxy_data = doc]]
    /\ UNCHANGED <<proxies, settings, now, sweep,
                   proxy_manager_settings, checks, health, enrich>>

\* insert_one(proxy_data) and create_task(check_proxy(proxy)).
add_insert(t) ==
    /\ task[t].pc = "add_insert"
    /\ proxies' = [p \in (DOMAIN proxies) \cup {task[t].proxy_id} |->
                     IF p = task[t].proxy_id THEN task[t].proxy_data ELSE proxies[p]]
    /\ checks' = checks \cup {task[t].proxy_id}
    /\ Return(t, "success", task[t].proxy_id)
    /\ UNCHANGED <<settings, now, sweep, pre, calls,
                   proxy_manager_settings, health, enrich>>

\* ----------------------------------------------------------- delete_proxy

\* delete_one({"_id": ...}).
delete_proxy(p) ==
    /\ p \in DOMAIN proxies
    /\ proxies' = [q \in (DOMAIN proxies) \ {p} |-> proxies[q]]
    /\ UNCHANGED <<settings, now, task, sweep,
                   proxy_manager_settings, checks, health, enrich>>

\* ---------------------------------------- background_update_country_codes

\* The loop asleep.  ips is the ip of each proxy of its last get_proxies().
EnrichSleeping == [pc |-> "sleep", todo |-> {}, ips |-> <<>>]

\* ------------------------------------------------------------------ clock

Tick ==
    /\ now < MaxTime
    /\ now' = now + 1
    /\ UNCHANGED <<proxies, settings, task, sweep, pre, calls,
                   proxy_manager_settings, checks, health, enrich>>

\* ======================================================== specifications

\* A proxy the health sweep has found UP, as the store holds it.
UpProxy(ip) == [ProxyModel(ip, 8080, "HTTP") EXCEPT !.status = "UP"]

IpOf == [p \in ProxyIds |-> IF p = "p1" THEN "10.0.0.1" ELSE "10.0.0.2"]

NoHistory ==
    [on |-> FALSE, proxies |-> <<>>, now |-> 0, checks |-> {},
     proxy_manager_settings |-> <<>>]

\* History at the start of a call: the two collections, the check_proxy tasks
\* created so far and the clock.
CallHistory ==
    [on |-> TRUE, proxies |-> proxies, now |-> now, checks |-> checks,
     proxy_manager_settings |-> proxy_manager_settings]

\* A request arrives; the API serves at most MaxCalls of them.
Request ==
    /\ calls < MaxCalls
    /\ calls' = calls + 1

\* The actions every specification shares.
AssignFind == \E t \in Tasks : assign_find(t)

AssignWrite == \E t \in Tasks : assign_write(t)

AssignTouch == \E t \in Tasks : assign_touch(t)

ClearUnset == \E t \in Tasks : clear_unset(t)

ClearFallback == \E t \in Tasks : clear_fallback(t)

Assign ==
    \E t \in Tasks, i \in Instances :
        assign_count(t, i, NoCountry, {}) /\ Request /\ UNCHANGED pre

Refresh ==
    \E p \in ProxyIds, i \in Instances \cup {"none"} :
        refresh_proxy_usage(p, i) /\ Request /\ UNCHANGED pre

ClearOn ==
    \E t \in Tasks, p \in ProxyIds, i \in Instances :
        clear_instance_from_specific_proxy(t, p, i) /\ Request /\ UNCHANGED pre

Clear ==
    \E t \in Tasks, i \in Instances :
        clear_instance_reservation(t, i) /\ Request /\ UNCHANGED pre

\* ---- Spec: the lease engine on one proxy, settings fixed: two request tasks
\* ---- that assign, refresh_usage calls and the expiry sweep, all interleaved
\* ---- at every await.

Init ==
    /\ proxies = [p \in {"p1"} |-> UpProxy(IpOf[p])]
    /\ settings \in [max_proxies_per_instance : {1},
                     max_instances_per_proxy : {1, 2},
                     inactive_proxy_timeout : {1, 2},
                     threshold_time_minutes : {1}]
    /\ now = 0
    /\ task = [t \in Tasks |-> IdleTask]
    /\ sweep = SweepSleeping
    /\ pre = NoHistory
    /\ calls = 0
    /\ proxy_manager_settings = SettingsDocument(settings)
    /\ checks = {}
    /\ health = HealthSleeping
    /\ enrich = EnrichSleeping

Next ==
    \/ Assign \/ AssignFind \/ AssignWrite \/ AssignTouch
    \/ Refresh
    \/ sweep_read \/ sweep_write \/ sweep_sleep
    \/ Tick

Spec == Init /\ [][Next]_vars

\* ---- PoolSpec: the lease engine on a pool of two proxies, with the two
\* ---- clear operations as well.

PoolInit ==
    /\ proxies = [p \in ProxyIds |-> UpProxy(IpOf[p])]
    /\ settings = [max_proxies_per_instance |-> 1, max_instances_per_proxy |-> 2,
                   inactive_proxy_timeout |-> 1, threshold_time_minutes |-> 1]
    /\ now = 0
    /\ task = [t \in Tasks |-> IdleTask]
    /\ sweep = SweepSleeping
    /\ pre = NoHistory
    /\ calls = 0
    /\ proxy_manager_settings = SettingsDocument(settings)
    /\ checks = {}
    /\ health = HealthSleeping
    /\ enrich = EnrichSleeping

PoolNext ==
    \/ Assign \/ AssignFind \/ AssignWrite \/ AssignTouch
    \/ Refresh
    \/ ClearOn \/ Clear \/ ClearUnset \/ ClearFallback
    \/ sweep_read \/ sweep_write \/ sweep_sleep
    \/ Tick

PoolSpec == PoolInit /\ [][PoolNext]_vars

\* ---- RaceSpec: scenario S6.  One UP proxy without leases; each of the two
\* ---- tasks calls assign once, for its own instance; the calls interleave at
\* ---- every await (and may also run one after the other).

InstanceOf == [t \in Tasks |-> IF t = "t1" THEN "i1" ELSE "i2"]

RaceInit ==
    /\ proxies = [p \in {"p1"} |-> UpProxy(IpOf[p])]
    /\ settings \in [max_proxies_per_instance : {1, 2},
                     max_instances_per_proxy : {1, 2},
                     inactive_proxy_timeout : {1, 2},
                     threshold_time_minutes : {1}]
    /\ now = 0
    /\ task = [t \in Tasks |-> IdleTask]
    /\ sweep = SweepSleeping
    /\ pre = [NoHistory EXCEPT !.on = TRUE]
    /\ calls = 0
    /\ proxy_manager_settings = SettingsDocument(settings)
    /\ checks = {}
    /\ health = HealthSleeping
    /\ enrich = EnrichSleeping

RaceAssign ==
    \E t \in Tasks :
        /\ task[t].op = "none"
        /\ assign_count(t, InstanceOf[t], NoCountry, {})
        /\ Request
        /\ UNCHANGED pre

RaceNext ==
    \/ RaceAssign \/ AssignFind \/ AssignWrite \/ AssignTouch
    \/ Tick

RaceSpec == RaceInit /\ [][RaceNext]_vars

\* ---- CommitSpec: assign with filters on one proxy, while probes write its
\* ---- status and edit_proxy rewrites its tags and country_code.

CommitInit ==
    /\ proxies = [p \in {"p1"} |->
                    [UpProxy(IpOf[p]) EXCEPT !.country_code = "FR", !.tags = {"a"}]]
    /\ settings = [max_proxies_per_instance |-> 1, max_instances_per_proxy |-> 2,
                   inactive_proxy_timeout |-> 1, threshold_time_minutes |-> 1]
    /\ now = 0
    /\ task = [t \in Tasks |-> IdleTask]
    /\ sweep = SweepSleeping
    /\ pre = NoHistory
    /\ calls = 0
    /\ proxy_manager_settings = SettingsDocument(settings)
    /\ checks = {}
    /\ health = HealthSleeping
    /\ enrich = EnrichSleeping

CommitAssign ==
    \E i \in Instances, cc \in {NoCountry, "fr"}, tg \in {{}, {"a"}} :
        assign_count("t1", i, cc, tg) /\ Request /\ UNCHANGED pre

CommitPatches ==
    {[country_code |-> JsonStr("US")], [country_code |-> JsonStr("FR")],
     [tags |-> JsonList({})], [tags |-> JsonList({"a"})]}

CommitEdit ==
    \E p \in ProxyIds, patch \in CommitPatches :
        edit_find("t2", p, patch) /\ Request /\ UNCHANGED pre

EditUpdate == \E t \in Tasks : edit_update(t)

\* round(duration.seconds * 100) averaged over the URLs that answered.
ResponseTimes == {0, 100}

Probe ==
    \E p \in ProxyIds, st \in {"UP", "DOWN"}, rt \in ResponseTimes \cup {Infinity} :
        check_proxy(p, st, rt) /\ UNCHANGED health

CommitNext ==
    \/ CommitAssign \/ AssignFind \/ AssignWrite \/ AssignTouch
    \/ CommitEdit \/ EditUpdate
    \/ Probe
    \/ Tick

CommitSpec == CommitInit /\ [][CommitNext]_vars

\* ---- RegistrySpec: add_proxy, edit_proxy and delete_proxy on an empty
\* ---- collection, interleaved at every await.

Ips == {"10.0.0.1", "10.0.0.2"}

Ports == {8080, 3128}

Protocols == {"HTTP", "SOCKS5"}

RegistryInit ==
    /\ proxies = <<>>
    /\ settings = [max_proxies_per_instance |-> 1, max_instances_per_proxy |-> 2,
                   inactive_proxy_timeout |-> 1, threshold_time_minutes |-> 1]
    /\ now = 0
    /\ task = [t \in Tasks |-> IdleTask]
    /\ sweep = SweepSleeping
    /\ pre = NoHistory
    /\ calls = 0
    /\ proxy_manager_settings = SettingsDocument(settings)
    /\ checks = {}
    /\ health = HealthSleeping
    /\ enrich = EnrichSleeping

Add ==
    \E t \in Tasks, id \in ProxyIds, ip \in Ips, port \in Ports, pr \in Protocols :
        add_find(t, id, ProxyModel(ip, port, pr)) /\ Request /\ UNCHANGED pre

AddInsert == \E t \in Tasks : add_insert(t)

RegistryPatches ==
    {[ip |-> JsonStr(ip)] : ip \in Ips}
        \cup {[port |-> JsonInt(port)] : port \in Ports}
        \cup {[protocol |-> JsonStr(pr)] : pr \in Protocols}
        \cup {[ip |-> JsonStr(ip), port |-> JsonInt(port)] : ip \in Ips, port \in Ports}

Edit ==
    \E t \in Tasks, p \in ProxyIds, patch \in RegistryPatches :
        edit_find(t, p, patch) /\ Request /\ UNCHANGED pre

Delete == \E p \in ProxyIds : delete_proxy(p) /\ Request /\ UNCHANGED pre

RegistryNext ==
    \/ Add \/ AddInsert
    \/ Edit \/ EditUpdate
    \/ Delete

RegistrySpec == RegistryInit /\ [][RegistryNext]_vars

\* ---- SeqSpec: requests served one at a time.  A call starts only when no
\* ---- other is in flight and runs to its return before the clock moves; pre
\* ---- records the store and the clock at the start of the call.

SeqInstances == {"i1", "i2", "i3"}

SeqInit ==
    /\ \E st \in {"UP", "DOWN"} :
         proxies = [p \in ProxyIds |->
            IF p = "p1"
            THEN [UpProxy(IpOf[p]) EXCEPT !.country_code = "FR", !.tags = {"a"}]
            ELSE [UpProxy(IpOf[p]) EXCEPT !.country_code = "US", !.status = st]]
    /\ settings \in [max_proxies_per_instance : {1, 2},
                     max_instances_per_proxy : {1, 2, 3},
                     inactive_proxy_timeout : {1, 2},
                     threshold_time_minutes : {1}]
    /\ now = 0
    /\ task = [t \in Tasks |-> IdleTask]
    /\ sweep = SweepSleeping
    /\ pre = [NoHistory EXCEPT !.on = TRUE]
    /\ calls = 0
    /\ proxy_manager_settings = SettingsDocument(settings)
    /\ checks = {}
    /\ health = HealthSleeping
    /\ enrich = EnrichSleeping

SeqIdle == \A t \in Tasks : task[t].pc = "idle"

SeqAssign ==
    \E i \in SeqInstances, cc \in {NoCountry, "fr"}, tg \in {{}, {"a"}} :
        /\ SeqIdle
        /\ assign_count("t1", i, cc, tg)
        /\ Request
        /\ pre' = CallHistory

SeqTick == SeqIdle /\ Tick

SeqNext ==
    \/ SeqAssign \/ AssignFind \/ AssignWrite \/ AssignTouch
    \/ SeqTick

SeqSpec == SeqInit /\ [][SeqNext]_vars

\* ---- RefreshSpec: refresh_usage(p, i) called again and again for one proxy
\* ---- and one instance, with nothing in between but the clock.  pre holds the
\* ---- collection before the first call, the arguments, and the time of the
\* ---- last call.

\* The lease mappings a proxy starts with: any instances, last used at 0.
LeaseMaps == {[k \in S |-> 0] : S \in SUBSET Instances}

RefreshInit ==
    /\ \E l1, l2 \in LeaseMaps, lu \in {NoTime, 0} :
         proxies = [p \in ProxyIds |->
            [UpProxy(IpOf[p]) EXCEPT !.instance_ids = IF p = "p1" THEN l1 ELSE l2,
                                     !.last_used = lu]]
    /\ settings = [max_proxies_per_instance |-> 1, max_instances_per_proxy |-> 2,
                   inactive_proxy_timeout |-> 1, threshold_time_minutes |-> 1]
    /\ now = 0
    /\ task = [t \in Tasks |-> IdleTask]
    /\ sweep = SweepSleeping
    /\ pre = NoHistory
    /\ calls = 0
    /\ proxy_manager_settings = SettingsDocument(settings)
    /\ checks = {}
    /\ health = HealthSleeping
    /\ enrich = EnrichSleeping

RefreshFirst ==
    \E p \in ProxyIds, i \in Instances :
        /\ ~pre.on
        /\ refresh_proxy_usage(p, i)
        /\ Request
        /\ pre' = [on |-> TRUE, proxies |-> proxies, now |-> now,
                   proxy_id |-> p, instance_id |-> i]

RefreshAgain ==
    /\ pre.on
    /\ refresh_proxy_usage(pre.proxy_id, pre.instance_id)
    /\ Request
    /\ pre' = [pre EXCEPT !.now = now]

RefreshNext == RefreshFirst \/ RefreshAgain \/ Tick

RefreshSpec == RefreshInit /\ [][RefreshNext]_vars

\* ---- SettingsSpec: update_settings and load_settings, one call at a time.
\* ---- pre holds the settings document before the last update and its patch.

\* The values a patch gives a field.  SettingsModel declares Optional[int] and
\* has no validator: any integer is accepted, 0 and negative ones included.
SettingsValues ==
    [inactive_proxy_timeout |-> {10}, threshold_time_minutes |-> {10, 5},
     background_check_proxies_interval |-> {DefaultInterval},
     max_instances_per_proxy |-> {0, 1, 2}, max_proxies_per_instance |-> {-1, 1}]

\* The patches: any set of fields, each with one of its values.
SettingsPatches ==
    UNION {{u \in [S -> {-1, 0, 1, 2, 5, 10, DefaultInterval}] :
               \A f \in S : u[f] \in SettingsValues[f]} : S \in SUBSET SettingsFields}

SettingsInit ==
    /\ proxies = [p \in {"p1"} |-> UpProxy(IpOf[p])]
    /\ settings \in [inactive_proxy_timeout : {10},
                     threshold_time_minutes : {10, 5},
                     background_check_proxies_interval : {DefaultInterval},
                     max_instances_per_proxy : {1, 2},
                     max_proxies_per_instance : {1, 2}]
    /\ now = 0
    /\ task = [t \in Tasks |-> IdleTask]
    /\ sweep = SweepSleeping
    /\ pre = NoHistory
    /\ calls = 0
    /\ proxy_manager_settings = SettingsDocument(settings)
    /\ checks = {}
    /\ health = HealthSleeping
    /\ enrich = EnrichSleeping

UpdateSettings ==
    \E patch \in SettingsPatches :
        /\ SeqIdle
        /\ update_settings("t1", patch)
        /\ Request
        /\ pre' = [on |-> TRUE, proxy_manager_settings |-> proxy_manager_settings,
                   updated_settings |-> patch, loads |-> 0]

SettingsLoad == \E t \in Tasks : settings_load(t)

LoadSettings ==
    /\ SeqIdle
    /\ pre.on
    /\ load_settings_call
    /\ Request
    /\ pre' = [pre EXCEPT !.loads = 1]

SettingsNext == UpdateSettings \/ SettingsLoad \/ LoadSettings

SettingsSpec == SettingsInit /\ [][SettingsNext]_vars

\* ---- DirectorySpec: add_proxy and edit_proxy, one call at a time, on a
\* ---- collection that starts empty or with one proxy.  pre holds the state at the start
\* ---- of the call and the call's argument (the new document, or the patch).

CallHistoryOf(args) ==
    [on |-> TRUE, proxies |-> proxies, now |-> now, checks |-> checks,
     proxy_manager_settings |-> proxy_manager_settings, args |-> args]

DirectoryInit ==
    /\ \E S \in {{}, {"p1"}} :
         proxies = [p \in S |->
                      [UpProxy(IpOf[p]) EXCEPT !.instance_ids = [i \in {"i1"} |-> 0],
                                               !.last_used = 0]]
    /\ settings = [max_proxies_per_instance |-> 1, max_instances_per_proxy |-> 2,
                   inactive_proxy_timeout |-> 1, threshold_time_minutes |-> 1]
    /\ now = 0
    /\ task = [t \in Tasks |-> IdleTask]
    /\ sweep = SweepSleeping
    /\ pre = [NoHistory EXCEPT !.on = TRUE]
    /\ calls = 0
    /\ proxy_manager_settings = SettingsDocument(settings)
    /\ checks = {}
    /\ health = HealthSleeping
    /\ enrich = EnrichSleeping

DirectoryAdd ==
    \E id \in ProxyIds, ip \in Ips, port \in Ports, pr \in Protocols :
        /\ SeqIdle
        /\ add_find("t1", id, ProxyModel(ip, port, pr))
        /\ Request
        /\ pre' = CallHistoryOf(ProxyModel(ip, port, pr))

\* Request bodies of /update_proxy: valid patches, patches with a field that
\* is not editable, a None, or tags that is not a list (alone and next to a
\* valid field), a number in a string field, and the empty body.
DirectoryPatches ==
    {[port |-> JsonInt(3128)],
     [tags |-> JsonList({"a"})],
     [ip |-> JsonStr("10.0.0.2"), port |-> JsonInt(8080)],
     [status |-> JsonStr("DOWN")],
     [ip |-> JsonStr("10.0.0.2"), status |-> JsonStr("DOWN")],
     [instance_ids |-> JsonNull],
     [country_code |-> JsonNull],
     [country_code |-> JsonNull, port |-> JsonInt(3128)],
     [tags |-> JsonStr("a")],
     [tags |-> JsonStr("a"), ip |-> JsonStr("10.0.0.2")],
     [country_code |-> JsonInt(7)],
     EmptyMap}

DirectoryEdit ==
    \E p \in ProxyIds, patch \in DirectoryPatches :
        /\ SeqIdle
        /\ edit_find("t1", p, patch)
        /\ Request
        /\ pre' = CallHistoryOf(patch)

DirectoryNext ==
    \/ DirectoryAdd \/ AddInsert
    \/ DirectoryEdit \/ EditUpdate

DirectorySpec == DirectoryInit /\ [][DirectoryNext]_vars

\* ---- LeaseSpec: the operations that remove leases (clear_lease,
\* ---- clear_lease_on, reset_all_leases) and edit_proxy, one call at a time,
\* ---- on two proxies that start with any leases.

LeaseInit ==
    /\ \E l1, l2 \in LeaseMaps, lu \in {NoTime, 0} :
         proxies = [p \in ProxyIds |->
            [UpProxy(IpOf[p]) EXCEPT !.instance_ids = IF p = "p1" THEN l1 ELSE l2,
                                     !.last_used = lu]]
    /\ settings = [max_proxies_per_instance |-> 1, max_instances_per_proxy |-> 2,
                   inactive_proxy_timeout |-> 1, threshold_time_minutes |-> 1]
    /\ now = 0
    /\ task = [t \in Tasks |-> IdleTask]
    /\ sweep = SweepSleeping
    /\ pre = [NoHistory EXCEPT !.on = TRUE]
    /\ calls = 0
    /\ proxy_manager_settings = SettingsDocument(settings)
    /\ checks = {}
    /\ health = HealthSleeping
    /\ enrich = EnrichSleeping

LeaseClear ==
    \E i \in Instances :
        /\ SeqIdle
        /\ clear_instance_reservation("t1", i)
        /\ Request
        /\ pre' = CallHistory

LeaseClearOn ==
    \E p \in ProxyIds, i \in Instances :
        /\ SeqIdle
        /\ clear_instance_from_specific_proxy("t1", p, i)
        /\ Request
        /\ pre' = CallHistory

LeaseReset ==
    /\ SeqIdle
    /\ reset_all_proxies("t1")
    /\ Request
    /\ pre' = CallHistory

ResetUpdate == \E t \in Tasks : reset_update(t)

\* Request bodies of /update_proxy that set country_code: a string, a number.
LeasePatches == {[country_code |-> JsonStr("FR")], [country_code |-> JsonInt(7)]}

LeaseEdit ==
    \E p \in ProxyIds, patch \in LeasePatches :
        /\ SeqIdle
        /\ edit_find("t1", p, patch)
        /\ Request
        /\ pre' = CallHistory

LeaseNext ==
    \/ LeaseClear \/ LeaseClearOn \/ ClearUnset \/ ClearFallback
    \/ LeaseReset \/ ResetUpdate
    \/ LeaseEdit \/ EditUpdate

LeaseSpec == LeaseInit /\ [][LeaseNext]_vars

\* ---- LoopSpec: the three background loops on two proxies nobody else
\* ---- writes to, every loop cut at its awaits and interleaved with the others.
\* ---- pre holds the collection the loops started from.

\* What one probe can find: UP with an average time, or DOWN with float('inf').
ProbeResults ==
    {[status |-> "UP", response_time |-> rt] : rt \in ResponseTimes}
        \cup {[status |-> "DOWN", response_time |-> Infinity]}

\* background_check_proxies, top of the loop: find({}) and one ProxyModel per
\* document (not guarded: a document that does not validate ends the loop's
\* task).  results is what the probes of this iteration are going to measure.
health_read ==
    /\ health.pc = "sleep"
    /\ IF \E p \in DOMAIN proxies : ValidationError(proxies[p])
       THEN health' = [health EXCEPT !.pc = "ended"]
       ELSE \E results \in [DOMAIN proxies -> ProbeResults] :
              health' = [pc |-> "gather", todo |-> DOMAIN proxies, results |-> results]
    /\ UNCHANGED <<proxies, settings, now, task, sweep, pre, calls,
                   proxy_manager_settings, checks, enrich>>

\* One check_proxy of the gather ends: its update_one.
health_check ==
    /\ health.pc = "gather"
    /\ \E p \in health.todo :
         /\ check_proxy(p, health.results[p].status, health.results[p].response_time)
         /\ health' = [health EXCEPT !.todo = @ \ {p}]

\* All the checks are done: asyncio.sleep(background_check_proxies_interval).
health_sleep ==
    /\ health.pc = "gather"
    /\ health.todo = {}
    /\ health' = [health EXCEPT !.pc = "sleep"]
    /\ UNCHANGED <<proxies, settings, now, task, sweep, pre, calls,
                   proxy_manager_settings, checks, enrich>>

\* get_country_code(ip): the country the GeoIP database has for the address.
get_country_code(ip) ==
    CASE ip = "10.0.0.1" -> "FR"
      [] ip = "10.0.0.2" -> "US"
      [] OTHER -> NoCountry

\* update_proxy_country_code setting status as well.
update_proxy_country_code_and_status(db, p, country_code) ==
    update_one_set(db, p, [country_code |-> country_code, status |-> "UNKNOWN"])

\* update_proxy_country_code: $set country_code on the document.
update_proxy_country_code(db, p, country_code) ==
    update_one_set(db, p, [country_code |-> country_code])

\* background_update_country_codes, top of the loop: get_proxies().  The loop
\* will look up the proxies of that list whose country_code is None.
enrich_read ==
    /\ enrich.pc = "sleep"
    /\ LET read == get_proxies(proxies)
       IN  enrich' = [pc |-> "loop",
                      todo |-> {p \in read : proxies[p].country_code = NoCountry},
                      ips |-> [p \in read |-> proxies[p].ip]]
    /\ UNCHANGED <<proxies, settings, now, task, sweep, pre, calls,
                   proxy_manager_settings, checks, health>>

\* The lookup of the next proxy and, when it gives a country, the update.
enrich_write ==
    /\ enrich.pc = "loop"
    /\ \E p \in enrich.todo :
         LET country_code == get_country_code(enrich.ips[p])
         IN  /\ proxies' = IF country_code # NoCountry
                            THEN update_proxy_country_code(proxies, p, country_code)
                            ELSE proxies
             /\ enrich' = [enrich EXCEPT !.todo = @ \ {p}]
    /\ UNCHANGED <<settings, now, task, sweep, pre, calls,
                   proxy_manager_settings, checks, health>>

\* The for loop is over: asyncio.sleep(20).
enrich_sleep ==
    /\ enrich.pc = "loop"
    /\ enrich.todo = {}
    /\ enrich' = [enrich EXCEPT !.pc = "sleep"]
    /\ UNCHANGED <<proxies, settings, now, task, sweep, pre, calls,
                   proxy_manager_settings, checks, health>>

\* The lease mappings the loops start from: any instances, last used at 0 or 1.
LoopLeaseMaps == UNION {[S -> {0, 1}] : S \in SUBSET Instances}

LoopInit ==
    /\ \E l1 \in LoopLeaseMaps, l2 \in LeaseMaps, lu \in {NoTime, 1},
          cc \in {NoCountry, "DE"} :
         proxies = [p \in ProxyIds |->
            [ProxyModel(IpOf[p], 8080, "HTTP") EXCEPT
                !.instance_ids = IF p = "p1" THEN l1 ELSE l2,
                !.last_used = lu,
                !.country_code = IF p = "p1" THEN NoCountry ELSE cc]]
    /\ settings = [max_proxies_per_instance |-> 1, max_instances_per_proxy |-> 2,
                   inactive_proxy_timeout |-> 1, threshold_time_minutes |-> 1]
    /\ now = 2
    /\ task = [t \in Tasks |-> IdleTask]
    /\ sweep = SweepSleeping
    /\ pre = [NoHistory EXCEPT !.on = TRUE, !.proxies = proxies]
    /\ calls = 0
    /\ proxy_manager_settings = SettingsDocument(settings)
    /\ checks = {}
    /\ health = HealthSleeping
    /\ enrich = EnrichSleeping

LoopNext ==
    \/ health_read \/ health_check \/ health_sleep
    \/ sweep_read \/ sweep_write \/ sweep_sleep
    \/ enrich_read \/ enrich_write \/ enrich_sleep

LoopSpec == LoopInit /\ [][LoopNext]_vars

\* ---- ServiceSpec: the three background loops on two proxies while
\* ---- /update_proxy requests, one at a time, rewrite the country_code of p1.

\* Request bodies of /update_proxy that set country_code: a string, a number.
ServicePatches == {[country_code |-> JsonStr("DE")], [country_code |-> JsonInt(7)]}

ServiceInit ==
    /\ proxies = [p \in ProxyIds |->
          [UpProxy(IpOf[p]) EXCEPT
              !.instance_ids = IF p = "p1" THEN [i \in {"i1"} |-> 0] ELSE EmptyMap]]
    /\ settings = [max_proxies_per_instance |-> 1, max_instances_per_proxy |-> 2,
                   inactive_proxy_timeout |-> 1, threshold_time_minutes |-> 1]
    /\ now = 2
    /\ task = [t \in Tasks |-> IdleTask]
    /\ sweep = SweepSleeping
    /\ pre = NoHistory
    /\ calls = 0
    /\ proxy_manager_settings = SettingsDocument(settings)
    /\ checks = {}
    /\ health = HealthSleeping
    /\ enrich = EnrichSleeping

ServiceEdit ==
    \E patch \in ServicePatches :
        /\ edit_find("t1", "p1", patch)
        /\ Request
        /\ UNCHANGED pre

ServiceNext ==
    \/ ServiceEdit \/ EditUpdate
    \/ health_read \/ health_check \/ health_sleep
    \/ sweep_read \/ sweep_write \/ sweep_sleep
    \/ enrich_read \/ enrich_write \/ enrich_sleep

ServiceSpec == ServiceInit /\ [][ServiceNext]_vars

\* ---- ExpirySpec: leases, refresh_usage requests and the expiry loop on two
\* ---- proxies, settings fixed.  FairExpirySpec adds what the event loop
\* ---- gives the expiry loop's task: it runs whenever it can run.

ExpiryInit ==
    /\ \E l1, l2 \in LeaseMaps :
         proxies = [p \in ProxyIds |->
            [UpProxy(IpOf[p]) EXCEPT !.instance_ids = IF p = "p1" THEN l1 ELSE l2]]
    /\ settings = [max_proxies_per_instance |-> 1, max_instances_per_proxy |-> 2,
                   inactive_proxy_timeout |-> 1, threshold_time_minutes |-> 1]
    /\ now = 0
    /\ task = [t \in Tasks |-> IdleTask]
    /\ sweep = SweepSleeping
    /\ pre = NoHistory
    /\ calls = 0
    /\ proxy_manager_settings = SettingsDocument(settings)
    /\ checks = {}
    /\ health = HealthSleeping
    /\ enrich = EnrichSleeping

\* POST /refresh_proxy_usage/{proxy_id}?instance_id=...: any string is an
\* instance id.
ExpiryRefresh ==
    \E p \in ProxyIds, i \in Instances \cup DottedInstances :
        refresh_proxy_usage(p, i) /\ Request /\ UNCHANGED pre

ExpiryNext ==
    \/ ExpiryRefresh
    \/ sweep_read \/ sweep_write \/ sweep_sleep
    \/ Tick

ExpirySpec == ExpiryInit /\ [][ExpiryNext]_vars

FairExpirySpec ==
    /\ ExpirySpec
    /\ WF_vars(sweep_read) /\ WF_vars(sweep_write) /\ WF_vars(sweep_sleep)

\* ---- RemovalSpec: /delete_proxy on one proxy while the operations that
\* ---- write to it are in flight: an assign, refresh_usage calls, the three
\* ---- background loops; and /add_proxy, which can insert the id again.
\* ---- pre holds the collection at the last delete call.

RemovalInit ==
    /\ proxies = [p \in {"p1"} |->
          [UpProxy(IpOf[p]) EXCEPT !.instance_ids = [i \in {"i1"} |-> 0]]]
    /\ settings = [max_proxies_per_instance |-> 1, max_instances_per_proxy |-> 2,
                   inactive_proxy_timeout |-> 1, threshold_time_minutes |-> 1]
    /\ now = 2
    /\ task = [t \in Tasks |-> IdleTask]
    /\ sweep = SweepSleeping
    /\ pre = [NoHistory EXCEPT !.on = TRUE]
    /\ calls = 0
    /\ proxy_manager_settings = SettingsDocument(settings)
    /\ checks = {}
    /\ health = HealthSleeping
    /\ enrich = EnrichSleeping

RemovalDelete == delete_proxy("p1") /\ Request /\ pre' = CallHistory

RemovalAssign == assign_count("t1", "i2", NoCountry, {}) /\ Request /\ UNCHANGED pre

RemovalRefresh ==
    \E i \in {"i1", "none"} :
        refresh_proxy_usage("p1", i) /\ Request /\ UNCHANGED pre

RemovalAdd ==
    add_find("t2", "p1", ProxyModel(IpOf["p1"], 8080, "HTTP")) /\ Request /\ UNCHANGED pre

RemovalNext ==
    \/ RemovalDelete
    \/ RemovalAssign \/ AssignFind \/ AssignWrite \/ AssignTouch
    \/ RemovalRefresh
    \/ RemovalAdd \/ AddInsert
    \/ health_read \/ health_check \/ health_sleep
    \/ sweep_read \/ sweep_write \/ sweep_sleep
    \/ enrich_read \/ enrich_write \/ enrich_sleep

RemovalSpec == RemovalInit /\ [][RemovalNext]_vars

\* ================================================================ claims

\* The proxies that hold a lease for instance i in the collection db.
Holders(db, i) == {p \in DOMAIN db : i \in DOMAIN db[p].instance_ids}

\* The leases of a mapping used within the last inactive_proxy_timeout minutes
\* before time t.
FreshLeases(ids, t) ==
    [k \in {x \in DOMAIN ids : ids[x] > t - settings.inactive_proxy_timeout} |-> ids[k]]

\* A document meets the filters of an assign call: every requested tag, and
\* the requested country in upper case.
MeetsFilters(doc, country_code, tags) ==
    /\ tags \subseteq doc.tags
    /\ (country_code # NoCountry => doc.country_code = Upper(country_code))

\* The last sequential call of task t1, once it has returned.
SeqCall == task["t1"]

SeqReturned(op) == SeqCall.op = op /\ SeqCall.pc = "idle"

\* C1 -- Per-instance cap: in every reachable state, for every instance i, the
\* number of proxies whose instance_ids holds i is at most
\* max_proxies_per_instance.
C1_PerInstanceCap ==
    \A i \in Instances :
        Cardinality(Holders(proxies, i)) <= settings.max_proxies_per_instance

\* C2 -- Per-proxy capacity: in the state right after an assign's lease write
\* on proxy p, p holds at most max_instances_per_proxy leases, whatever
\* assigns, refreshes and sweeps interleave with it.
C2_CapacityAfterAssignWrite ==
    [][\A t \in Tasks :
          (/\ task[t].pc = "assign_write"
           /\ task'[t].pc # "assign_write"
           /\ task[t].proxy_id \in DOMAIN proxies')
          => Cardinality(DOMAIN proxies'[task[t].proxy_id].instance_ids)
                <= settings.max_instances_per_proxy]_vars

\* C2 witness: an assign's write has just filled the proxy to its capacity of
\* two while the other task's assign, which read the proxy earlier, is still
\* to write.
C2_Witness ==
    \E t, u \in Tasks :
        /\ t # u
        /\ task[t].pc = "assign_touch"
        /\ task[u].pc = "assign_write"
        /\ task[u].proxy_id = task[t].proxy_id
        /\ settings.max_instances_per_proxy = 2
        /\ Cardinality(DOMAIN proxies[task[t].proxy_id].instance_ids) = 2

\* C3 -- Concurrent assign collision: with max_instances_per_proxy = 1 and one
\* candidate proxy without leases, of two assigns for distinct instances
\* exactly one returns success and the other returns NoProxyAvailable.
C3_ExactlyOneSucceeds ==
    (/\ settings.max_instances_per_proxy = 1
     /\ \A t \in Tasks : task[t].op = "assign" /\ task[t].pc = "idle")
    => \E t \in Tasks :
          /\ task[t].ret = "success"
          /\ \A u \in Tasks \ {t} : task[u].ret = "noproxy"

\* C4 -- Commit-time validity: when the lease write of an assign that returns
\* success lands, the proxy it lands on has status UP, every requested tag and
\* the requested country code.
C4_CommitTimeValidity ==
    [][\A t \in Tasks :
          (task[t].pc = "assign_write" /\ task'[t].pc = "assign_touch")
          => /\ proxies'[task[t].proxy_id].status = "UP"
             /\ MeetsFilters(proxies'[task[t].proxy_id],
                             task[t].country_code, task[t].tags)]_vars

\* C5 -- Stale leases never block: a sequential assign(i) succeeds when i is
\* below its cap and some UP proxy meeting the filters has fewer than
\* max_instances_per_proxy fresh leases, however many stale leases it carries.
C5_StaleNeverBlocks ==
    (/\ SeqReturned("assign")
     /\ Cardinality(Holders(pre.proxies, SeqCall.instance_id))
            < settings.max_proxies_per_instance
     /\ \E p \in DOMAIN pre.proxies :
            /\ pre.proxies[p].status = "UP"
            /\ MeetsFilters(pre.proxies[p], SeqCall.country_code, SeqCall.tags)
            /\ Cardinality(DOMAIN FreshLeases(pre.proxies[p].instance_ids, pre.now))
                  < settings.max_instances_per_proxy)
    => SeqCall.ret = "success"

\* C6 -- Uniqueness: no two proxy documents share (ip, port, protocol).
C6_Uniqueness ==
    \A p, q \in DOMAIN proxies :
        p # q => <<proxies[p].ip, proxies[p].port, proxies[p].protocol>>
                    # <<proxies[q].ip, proxies[q].port, proxies[q].protocol>>

\* C7 -- Expiry sweep postcondition: when an iteration of the sweep that took
\* now = T completes, every lease in the collection has a timestamp
\* t >= T - threshold_time_minutes.
C7_SweepPostcondition ==
    [][(sweep.pc = "loop" /\ sweep'.pc = "sleep")
          => \A p \in DOMAIN proxies' :
               \A i \in DOMAIN proxies'[p].instance_ids :
                  proxies'[p].instance_ids[i] >= sweep.threshold_time]_vars

\* C8 -- InstanceSaturated: a sequential assign(i) called when i already holds
\* max_proxies_per_instance proxies or more returns the instance-saturated
\* error and leaves every proxy document unchanged.
C8_InstanceSaturated ==
    (/\ SeqReturned("assign")
     /\ Cardinality(Holders(pre.proxies, SeqCall.instance_id))
            >= settings.max_proxies_per_instance)
    => /\ SeqCall.ret = "saturated"
       /\ proxies = pre.proxies

\* The scenario of C9: the call had no filters, exactly one proxy was UP when
\* it began, none of that proxy's leases was stale and none was the caller's.
C9_Scenario(p) ==
    /\ SeqReturned("assign")
    /\ SeqCall.country_code = NoCountry /\ SeqCall.tags = {}
    /\ {q \in DOMAIN pre.proxies : pre.proxies[q].status = "UP"} = {p}
    /\ FreshLeases(pre.proxies[p].instance_ids, pre.now) = pre.proxies[p].instance_ids
    /\ SeqCall.instance_id \notin DOMAIN pre.proxies[p].instance_ids

\* C9 -- Capacity exhaustion: with a single UP proxy and no stale lease, a
\* sequential assign for a new instance succeeds on that proxy while it holds
\* fewer than max_instances_per_proxy leases, and adds the caller's lease;
\* once it holds max_instances_per_proxy the assign returns NoProxyAvailable
\* and leaves the proxy's instance_ids unchanged.
C9_CapacityExhaustion ==
    \A p \in ProxyIds :
        C9_Scenario(p) =>
            IF Cardinality(DOMAIN pre.proxies[p].instance_ids)
                  < settings.max_instances_per_proxy
            THEN /\ SeqCall.ret = "success"
                 /\ SeqCall.proxy_id = p
                 /\ DOMAIN proxies[p].instance_ids
                       = DOMAIN pre.proxies[p].instance_ids \cup {SeqCall.instance_id}
            ELSE /\ SeqCall.ret = "noproxy"
                 /\ proxies[p].instance_ids = pre.proxies[p].instance_ids

\* C9 witness: with max_instances_per_proxy = 2 the third assign in a row, for
\* a third instance, has returned NoProxyAvailable.
C9_Witness ==
    \E p \in ProxyIds :
        /\ C9_Scenario(p)
        /\ settings.max_instances_per_proxy = 2
        /\ Cardinality(DOMAIN pre.proxies[p].instance_ids) = 2
        /\ SeqCall.ret = "noproxy"

\* C10 -- Pre-prune result: after a successful sequential assign(i) on proxy p
\* at time now, p.instance_ids is exactly the leases of the previous mapping
\* with t > now - inactive_proxy_timeout, plus (i, now).
C10_PrePruneResult ==
    (SeqReturned("assign") /\ SeqCall.ret = "success")
    => proxies[SeqCall.proxy_id].instance_ids
          = SetKey(FreshLeases(pre.proxies[SeqCall.proxy_id].instance_ids, pre.now),
                   SeqCall.instance_id, pre.now)

\* C10 witness: a successful assign on a proxy that held a stale lease and a
\* fresh lease, both of other instances; the stale one is gone, the fresh one
\* is kept.
C10_Witness ==
    /\ SeqReturned("assign") /\ SeqCall.ret = "success"
    /\ LET old == pre.proxies[SeqCall.proxy_id].instance_ids
           new == proxies[SeqCall.proxy_id].instance_ids
       IN  \E j, k \in DOMAIN old \ {SeqCall.instance_id} :
              /\ old[j] <= pre.now - settings.inactive_proxy_timeout
              /\ old[k] > pre.now - settings.inactive_proxy_timeout
              /\ j \notin DOMAIN new
              /\ k \in DOMAIN new /\ new[k] = old[k]

\* C11 -- Expiry sweep and last_used: the sweep's write on a proxy clears
\* last_used exactly when that write leaves the proxy's instance_ids empty,
\* also when an assign or a refresh added a lease between the sweep's read and
\* its write.
C11_SweepClearsLastUsed ==
    [][\A p \in DOMAIN proxies :
          (/\ sweep.pc = "loop" /\ p \in sweep.todo
           /\ sweep'.pc = "loop" /\ p \notin sweep'.todo)
          => (sweep.expired[p].all <=> proxies'[p].instance_ids = EmptyMap)]_vars

\* C12 -- Refresh idempotence: after N >= 1 calls of refresh_usage(p, i) with
\* no other operation in between, the collection is the one before the first
\* call with p.instance_ids[i] set to the time of the last call: no other
\* lease, field or proxy differs.
C12_RefreshIdempotence ==
    pre.on =>
        proxies = [pre.proxies EXCEPT
                      ![pre.proxy_id].instance_ids = SetKey(@, pre.instance_id, pre.now)]

\* C12 witness: three calls, the last one later than the first, on a proxy
\* that held i and another instance before the first call.
C12_Witness ==
    /\ pre.on /\ calls = MaxCalls /\ pre.now > 0
    /\ DOMAIN pre.proxies[pre.proxy_id].instance_ids = Instances
    /\ proxies[pre.proxy_id].instance_ids[pre.instance_id] = pre.now

\* C13 -- Settings round-trip: after update(patch) with a non-empty patch has
\* returned, and after any load() that follows it, every field of the patch
\* has the patch's value and every other field its previous value, in the
\* settings document and in the values cached in memory.
C13_SettingsRoundTrip ==
    (/\ pre.on /\ SeqIdle
     /\ DOMAIN pre.updated_settings # {})
    => \A f \in SettingsFields :
          /\ proxy_manager_settings[f] =
                IF f \in DOMAIN pre.updated_settings
                THEN pre.updated_settings[f]
                ELSE pre.proxy_manager_settings[f]
          /\ settings[f] = proxy_manager_settings[f]

\* C13 witness: an update that changed one field and left another, different
\* from its default, as it was, followed by a load.
C13_Witness ==
    /\ pre.on /\ SeqIdle /\ pre.loads = 1
    /\ DOMAIN pre.updated_settings = {"max_instances_per_proxy"}
    /\ pre.updated_settings["max_instances_per_proxy"]
          # pre.proxy_manager_settings["max_instances_per_proxy"]
    /\ settings["max_instances_per_proxy"] = pre.updated_settings["max_instances_per_proxy"]
    /\ settings["threshold_time_minutes"] = 5

\* C14 -- Duplicate rejection: add(proxy) called when a document with the same
\* (ip, port, protocol) exists returns the Duplicate error, inserts nothing,
\* creates no check_proxy task and leaves every document as it was.
C14_DuplicateRejection ==
    (/\ SeqReturned("add")
     /\ \E p \in DOMAIN pre.proxies :
           <<pre.proxies[p].ip, pre.proxies[p].port, pre.proxies[p].protocol>>
              = <<pre.args.ip, pre.args.port, pre.args.protocol>>)
    => /\ SeqCall.ret = "duplicate"
       /\ proxies = pre.proxies
       /\ checks = pre.checks

\* C14 witness: the same triple added twice; the first add inserted the
\* document and created its check, the second one has returned Duplicate.
C14_Witness ==
    /\ SeqReturned("add") /\ SeqCall.ret = "duplicate"
    /\ \E p \in DOMAIN pre.proxies :
          /\ <<pre.proxies[p].ip, pre.proxies[p].port, pre.proxies[p].protocol>>
                = <<pre.args.ip, pre.args.port, pre.args.protocol>>
          /\ pre.proxies[p].status = "UNKNOWN"
          /\ checks = {p}

\* A patch edit_proxy has to reject: a key outside the whitelist, a None
\* value, or tags that is not a list.
C16_Rejected(patch) ==
    \E f \in DOMAIN patch :
        \/ f \notin {"ip", "port", "username", "password", "protocol",
                     "country_code", "tags"}
        \/ patch[f].type = "NoneType"
        \/ f = "tags" /\ patch[f].type # "list"

\* C16 -- Edit rejection: edit(id, patch) on an existing proxy with a patch
\* that has a key outside the whitelist, a None value or a non-list tags fails
\* with an error, whatever valid keys the patch also has, and edit on an id no
\* proxy has fails with NotFound; in both cases no document changes and no
\* check_proxy task is created.
C16_EditRejection ==
    SeqReturned("edit") =>
        /\ (SeqCall.proxy_id \notin DOMAIN pre.proxies)
             => /\ SeqCall.ret = "notfound"
                /\ proxies = pre.proxies /\ checks = pre.checks
        /\ (SeqCall.proxy_id \in DOMAIN pre.proxies /\ C16_Rejected(pre.args))
             => /\ SeqCall.ret \in {"forbidden", "invalid"}
                /\ proxies = pre.proxies /\ checks = pre.checks

\* C16 witness: a patch with a valid ip and a non-list tags, on a proxy that
\* exists, has been rejected.
C16_Witness ==
    /\ SeqReturned("edit")
    /\ SeqCall.proxy_id \in DOMAIN pre.proxies
    /\ DOMAIN pre.args = {"ip", "tags"}
    /\ pre.args.tags.type = "str"
    /\ SeqCall.ret = "invalid"
    /\ proxies = pre.proxies

\* C15 -- Filter selection: a sequential assign(i, country, tags) that returns
\* success returns a proxy that was UP, had every requested tag and had the
\* requested country in upper case; when no UP proxy meeting the filters holds
\* fewer than max_instances_per_proxy leases, it returns NoProxyAvailable.
C15_FilterSelection ==
    SeqReturned("assign") =>
        /\ SeqCall.ret = "success" =>
              /\ SeqCall.proxy_id \in DOMAIN pre.proxies
              /\ pre.proxies[SeqCall.proxy_id].status = "UP"
              /\ SeqCall.tags \subseteq pre.proxies[SeqCall.proxy_id].tags
              /\ SeqCall.country_code = "fr"
                    => pre.proxies[SeqCall.proxy_id].country_code = "FR"
        /\ (\A p \in DOMAIN pre.proxies :
               ~(/\ pre.proxies[p].status = "UP"
                 /\ MeetsFilters(pre.proxies[p], SeqCall.country_code, SeqCall.tags)
                 /\ Cardinality(DOMAIN pre.proxies[p].instance_ids)
                       < settings.max_instances_per_proxy))
             => SeqCall.ret = "noproxy"

\* C15 witness: two UP proxies with country FR and US; an assign with country
\* "fr" and tag "a" has returned the FR proxy.
C15_Witness ==
    /\ SeqReturned("assign") /\ SeqCall.ret = "success"
    /\ SeqCall.country_code = "fr" /\ SeqCall.tags = {"a"}
    /\ \A p \in ProxyIds : pre.proxies[p].status = "UP"
    /\ pre.proxies[SeqCall.proxy_id].country_code = "FR"
    /\ \E q \in ProxyIds : pre.proxies[q].country_code = "US"

\* C17 -- clear_lease: after a sequential clear_lease(i), when some proxy held
\* i at the call no proxy holds i and every other lease is as it was; when no
\* proxy held i the call returns NotHeld and no document has changed.
C17_ClearLease ==
    SeqReturned("clear") =>
        IF Holders(pre.proxies, SeqCall.instance_id) # {}
        THEN /\ Holders(proxies, SeqCall.instance_id) = {}
             /\ \A p \in DOMAIN pre.proxies :
                   proxies[p].instance_ids
                      = Unset(pre.proxies[p].instance_ids, {SeqCall.instance_id})
        ELSE /\ SeqCall.ret = "notheld"
             /\ proxies = pre.proxies

\* C18 -- reset_all_leases: when reset_all_leases() has completed every proxy
\* has an empty instance_ids and no last_used, and every other field of every
\* proxy is as it was at the call.
C18_ResetAllLeases ==
    SeqReturned("reset") =>
        /\ DOMAIN proxies = DOMAIN pre.proxies
        /\ \A p \in DOMAIN proxies :
              /\ proxies[p].instance_ids = EmptyMap
              /\ proxies[p].last_used = NoTime
              /\ \A f \in {"ip", "port", "protocol", "username", "password", "status",
                            "response_time", "country_code", "tags", "instance_id"} :
                    proxies[p][f] = pre.proxies[p][f]

\* C18 witness: a reset of two proxies that both held leases and a last_used.
C18_Witness ==
    /\ SeqReturned("reset") /\ SeqCall.ret = "success"
    /\ \A p \in ProxyIds :
          /\ DOMAIN pre.proxies[p].instance_ids # {}
          /\ pre.proxies[p].last_used = 0
          /\ proxies[p].instance_ids = EmptyMap
          /\ proxies[p].last_used = NoTime

\* C20 -- Lease lifecycle: a lease entry appears in a proxy's instance_ids only
\* by the lease write of an assign for that instance on that proxy; no other
\* step, a refresh_usage for an instance that holds no lease on the proxy
\* included, adds a key to instance_ids.
C20_LeaseCreatedOnlyByAssign ==
    [][\A p \in (DOMAIN proxies) \cap (DOMAIN proxies') :
          \A i \in (DOMAIN proxies'[p].instance_ids) \ (DOMAIN proxies[p].instance_ids) :
             \E t \in Tasks :
                /\ task[t].pc = "assign_write"
                /\ task'[t].pc # "assign_write"
                /\ task[t].proxy_id = p
                /\ task[t].instance_id = i]_vars

\* Each of the three loops has gone through an iteration and none is in the
\* middle of one: the health sweep and the enrichment are asleep after a run,
\* the expiry sweep has sent its last update.
C19_LoopsDone ==
    /\ health.pc = "sleep" /\ DOMAIN health.results = DOMAIN proxies
    /\ enrich.pc = "sleep" /\ DOMAIN enrich.ips = DOMAIN proxies
    /\ sweep.pc = "loop" /\ sweep.todo = {}

\* The document the three loops make of document doc of proxy p, written
\* field by field: what the probe measured, the country of the ip when there
\* was none, the leases not older than the threshold, and last_used removed
\* when every lease was.
C19_Expected(p, doc) ==
    LET expired == {i \in DOMAIN doc.instance_ids :
                       doc.instance_ids[i] < now - settings.threshold_time_minutes}
    IN  [doc EXCEPT
            !.status = health.results[p].status,
            !.response_time = health.results[p].response_time,
            !.country_code = IF @ = NoCountry
                             THEN (IF doc.ip = "10.0.0.1" THEN "FR" ELSE "US") ELSE @,
            !.instance_ids = [i \in (DOMAIN @) \ expired |-> @[i]],
            !.last_used = IF expired # {} /\ expired = DOMAIN doc.instance_ids
                          THEN NoTime ELSE @]

\* C19 -- Loop writes are disjoint and commute: after an iteration of the
\* health sweep, the expiry sweep and the country enrichment, whatever the
\* order their reads and writes took, each proxy document is the starting
\* document with status and response_time from the probe, the expired leases
\* (and last_used with the last of them) removed, and country_code filled in.
C19_LoopWritesCommute ==
    C19_LoopsDone =>
        \A p \in DOMAIN proxies : proxies[p] = C19_Expected(p, pre.proxies[p])

\* C19 witness: the three loops are done and each of them has changed the
\* same document.
C19_Witness ==
    /\ C19_LoopsDone
    /\ \E p \in DOMAIN proxies :
          /\ proxies[p].status = "UP" /\ pre.proxies[p].status = "UNKNOWN"
          /\ proxies[p].country_code = "FR" /\ pre.proxies[p].country_code = NoCountry
          /\ DOMAIN proxies[p].instance_ids # DOMAIN pre.proxies[p].instance_ids
          /\ DOMAIN proxies[p].instance_ids # {}

\* C22 -- Settings bounds: in every reachable state, whatever load and
\* update_settings calls have run, the max_instances_per_proxy and
\* max_proxies_per_instance the engine reads are at least 1.
C22_SettingsBounds ==
    /\ settings["max_instances_per_proxy"] >= 1
    /\ settings["max_proxies_per_instance"] >= 1

\* C23 -- No lost lease: the write of an assign for instance j on proxy p
\* keeps every lease of another instance i that p holds at the time of the
\* write, with its timestamp, unless that lease is stale
\* (t <= now - inactive_proxy_timeout).  A lease written by a concurrent
\* assign or refresh between j's read and j's write is such a lease.
C23_NoLostLease ==
    [][\A t \in Tasks :
          assign_write(t) =>
              LET p == task[t].proxy_id
              IN  p \in DOMAIN proxies =>
                      \A i \in DOMAIN proxies[p].instance_ids \ {task[t].instance_id} :
                          proxies[p].instance_ids[i] > now - settings.inactive_proxy_timeout
                              => /\ i \in DOMAIN proxies'[p].instance_ids
                                 /\ proxies'[p].instance_ids[i] = proxies[p].instance_ids[i]]_vars

\* C25 -- clear_lease_on result: a sequential clear_lease_on(p, i) reports
\* success only if i was in p.instance_ids at the call and is absent after
\* it; when i holds no lease on p (or p does not exist) it reports failure and
\* the collection is as it was at the call, on the first call as on a
\* repeated one.
C25_ClearLeaseOnResult ==
    SeqReturned("clear_on") =>
        LET p == SeqCall.proxy_id
            i == SeqCall.instance_id
            held == p \in DOMAIN pre.proxies /\ i \in DOMAIN pre.proxies[p].instance_ids
        IN  /\ SeqCall.ret = "success" =>
                  held /\ i \notin DOMAIN proxies[p].instance_ids
            /\ ~held => SeqCall.ret = "error" /\ proxies = pre.proxies

\* C21 -- Loop failure isolation: no background loop is stopped by what it
\* finds on one proxy; the health loop, whatever documents the collection
\* holds, goes on to its probes, its sleep and its next iteration.
C21_LoopFailureIsolation == health.pc # "ended"

\* C26 -- Enrichment never overwrites: a write of the enrichment loop changes
\* the country_code of a proxy only when the proxy has no country_code at the
\* time of the write; a country_code that edit has set since the loop's read
\* stays.
C26_EnrichmentNeverOverwrites ==
    [][enrich_write =>
          \A p \in DOMAIN proxies :
              proxies'[p].country_code # proxies[p].country_code
                  => proxies[p].country_code = NoCountry]_vars

\* Proxy p holds the lease of instance i stamped t.
HoldsLease(p, i, t) ==
    /\ p \in DOMAIN proxies
    /\ i \in DOMAIN proxies[p].instance_ids
    /\ proxies[p].instance_ids[i] = t

\* C24 -- Lease expiry liveness: with the expiry loop scheduled fairly and
\* settings fixed, a lease (p, i, t) held when now exceeds
\* t + threshold_time_minutes is eventually not held any more (removed by the
\* loop, unless a refresh or an assign has given i a later stamp).
C24_LeaseExpiryLiveness ==
    \A p \in ProxyIds, i \in Instances, t \in 0..MaxTime :
        (HoldsLease(p, i, t) /\ now > t + settings.threshold_time_minutes)
            ~> ~HoldsLease(p, i, t)

\* C27 -- No resurrection after delete: the set of ids of the collection
\* grows only by the insert of add; no write of an operation that read a
\* proxy before its deletion (a probe, the expiry sweep, the enrichment, a
\* refresh, the lease write of an assign) puts the document back.
C27_NoResurrection ==
    [][\/ \E t \in Tasks : add_insert(t)
       \/ DOMAIN proxies' \subseteq DOMAIN proxies]_vars

\* C27 witness: only an assign and a delete have been requested; p1 is gone,
\* and after the delete call the assign's lease write (it found nothing to
\* modify), the probe's write, the sweep's write and the enrichment's write of
\* p1 have all run, each prepared from a read made before the deletion.
C27_Witness ==
    /\ calls = 2
    /\ "p1" \notin DOMAIN proxies /\ "p1" \in DOMAIN pre.proxies
    /\ task["t1"].op = "assign" /\ task["t1"].pc = "idle"
    /\ task["t1"].ret = "failed" /\ task["t1"].proxy_id = "p1"
    /\ health.pc = "gather" /\ "p1" \in DOMAIN health.results
    /\ "p1" \notin health.todo
    /\ health.results["p1"].status = "DOWN" /\ pre.proxies["p1"].status = "UP"
    /\ sweep.pc = "loop" /\ "p1" \in DOMAIN sweep.expired /\ "p1" \notin sweep.todo
    /\ sweep.expired["p1"].ids \subseteq DOMAIN pre.proxies["p1"].instance_ids
    /\ enrich.pc = "loop" /\ "p1" \in DOMAIN enrich.ips /\ "p1" \notin enrich.todo
    /\ pre.proxies["p1"].country_code = NoCountry

====
